---- MODULE Spec2Model ----
(***************************************************************************)
(* Statistics of GO + PPI datasets (src/stats.py): RowStats, DatasetStats  *)
(* and main, with their memoized fields, as state machines.                *)
(*                                                                         *)
(* Representation of Python values                                         *)
(*   None / a value v       <<>> / <<v>>                                   *)
(*   dict                   a function whose DOMAIN is the set of keys     *)
(*   str used as a name     the sequence of its characters                 *)
(*   int, float             the exact rational <<n, d>>, d > 0, reduced    *)
(*   a PPI value            its decimal text; float(text) is the number    *)
(*                          in units of 1/10000                            *)
(*   a call                 [obj, exc, val]: the object after the call,    *)
(*                          the exception it raised (NoExc if none) and    *)
(*                          the value it returned                          *)
(***************************************************************************)
EXTENDS Integers, Sequences, FiniteSets, TLC

VARIABLES
    row_stats,      \* SpecRow: the RowStats object under access
    stats,          \* Spec: the DatasetStats object under access
    result,         \* Spec, SpecRow: outcome of the latest access
    first,          \* Spec: outcome of the first get_stats call on stats
    argv,           \* SpecMain: sys.argv[1:], each entry a path and the file's rows
    pc,             \* SpecMain: position of main inside its loop body
    done,           \* SpecMain: number of loop iterations completed
    print_header,   \* SpecMain: main's print_header
    w,              \* SpecMain: fieldnames of the csv.DictWriter
    dataset_stats,  \* SpecMain: main's dataset_stats dict of the current iteration
    stdout,         \* SpecMain: the rows written to sys.stdout so far
    exit            \* SpecMain: the uncaught exception that ended the run, or NoExc

vars == <<row_stats, stats, result, first, argv, pc, done, print_header, w,
          dataset_stats, stdout, exit>>

(***************************************************************************)
(* Bounds of the inputs                                                    *)
(***************************************************************************)
MaxGoRow == 2
MaxPpiRow == 1
MaxRows == 2
MaxFiles == 3

(***************************************************************************)
(* Python values                                                           *)
(***************************************************************************)
None == <<>>

Some(v) == <<v>>

NoExc == [type |-> "None", msg |-> <<>>]

Ret(obj, val) == [obj |-> obj, exc |-> NoExc, val |-> val]

Throw(obj, type, msg) == [obj |-> obj, exc |-> [type |-> type, msg |-> msg], val |-> None]

Put(d, k, v) == (k :> v) @@ d

\* Statement sequencing: an exception of the call r propagates, otherwise the
\* rest of the body runs with r's outcome
Bind(r, rest(_)) == IF r.exc # NoExc THEN r ELSE rest(r)

RECURSIVE Gcd(_, _)
Gcd(a, b) == IF b = 0 THEN a ELSE Gcd(b, a % b)

Rat(n, d) == LET g == Gcd(IF n < 0 THEN -n ELSE n, d) IN <<n \div g, d \div g>>

Whole(n) == <<n, 1>>

RatAdd(x, y) == Rat(x[1] * y[2] + y[1] * x[2], x[2] * y[2])

RatDiv(x, y) == Rat(x[1] * y[2], x[2] * y[1])

\* x / y of two non-negative numbers: ZeroDivisionError when y is zero
TrueDiv(obj, x, y) ==
    IF y[1] = 0 THEN Throw(obj, "ZeroDivisionError", <<>>) ELSE Ret(obj, RatDiv(x, y))

startswith(name, prefix) ==
    Len(name) >= Len(prefix) /\ SubSeq(name, 1, Len(prefix)) = prefix

DigitChar == <<"0", "1", "2", "3", "4", "5", "6", "7", "8", "9">>

RECURSIVE Decimal(_)
Decimal(n) ==
    IF n < 10 THEN <<DigitChar[n + 1]>>
    ELSE Decimal(n \div 10) \o <<DigitChar[(n % 10) + 1]>>

(***************************************************************************)
(* Rows as arff hands them to the program: Row._data is keyed by every     *)
(* column's name (a str) and by its index (an int).                        *)
(***************************************************************************)
ENTREZ == <<"e", "n", "t", "r", "e", "z">>

CLASS == <<"c", "l", "a", "s", "s">>

GO_PREFIX == <<"G", "O", ":">>

GoName(i) == GO_PREFIX \o Decimal(i)

PpiName(i) == <<"p", "p", "i">> \o Decimal(i)

StrKey(name) == [str |-> TRUE, k |-> name]

IntKey(i) == [str |-> FALSE, k |-> Decimal(i)]

Row(fields, values) ==
    LET n == Len(fields)
        keys == {StrKey(fields[i]) : i \in 1..n} \cup {IntKey(i - 1) : i \in 1..n}
        col(key) == CHOOSE i \in 1..n : key = StrKey(fields[i]) \/ key = IntKey(i - 1)
    IN [_fields |-> fields, _data |-> [key \in keys |-> values[col(key)]]]

\* row[name]
getitem(row, name) == row._data[StrKey(name)]

\* The columns entrez, GO:1.., ppi1.., class with the given values
MakeRow(entrez, gos, ppis, class) ==
    Row(<<ENTREZ>> \o [i \in 1..Len(gos) |-> GoName(i)]
                   \o [i \in 1..Len(ppis) |-> PpiName(i)] \o <<CLASS>>,
        <<entrez>> \o gos \o ppis \o <<class>>)

\* float(text), in units of 1/10000
float(text) ==
    CASE text = "-0.01" -> -100
      [] text \in {"0", "0.0"} -> 0
      [] text = "0.0001" -> 1
      [] text = "0.150" -> 1500
      [] text = "0.1501" -> 1501
      [] text = "0.400" -> 4000
      [] text = "0.4001" -> 4001
      [] text = "0.5" -> 5000
      [] text = "0.700" -> 7000
      [] text = "0.7001" -> 7001
      [] text = "0.900" -> 9000
      [] text = "0.9001" -> 9001
      [] text \in {"1", "1.000"} -> 10000
      [] text = "1.0001" -> 10001

\* The order in which a for loop visits a set of column names. Python leaves
\* it unspecified; the model visits in column order and the inputs range over
\* every arrangement of the values over the columns.
Iter(row, names) == SelectSeq(row._fields, LAMBDA name : name \in names)

(***************************************************************************)
(* class RowStats                                                          *)
(***************************************************************************)
B000 == 0
B150 == 1500
B400 == 4000
B700 == 7000
B900 == 9000
B1000 == 10000

RowStats(row) == [row |-> row, _features_names |-> <<>>, _values_count |-> <<>>]

RowStats_all_features_names(self) ==
    IF "all" \notin DOMAIN self._features_names
    THEN LET columns_names == {key.k : key \in {kk \in DOMAIN self.row._data : kk.str}}
             all == columns_names \ {ENTREZ, CLASS}
         IN Ret([self EXCEPT !._features_names = Put(@, "all", all)], all)
    ELSE Ret(self, self._features_names["all"])

RowStats_go_features_names(self) ==
    IF "go" \notin DOMAIN self._features_names
    THEN LET a == RowStats_all_features_names(self)
             go == {name \in a.val : startswith(name, GO_PREFIX)}
         IN Ret([a.obj EXCEPT !._features_names = Put(@, "go", go)], go)
    ELSE Ret(self, self._features_names["go"])

RowStats_ppi_features_names(self) ==
    IF "ppi" \notin DOMAIN self._features_names
    THEN LET a == RowStats_all_features_names(self)
             ppi == {name \in a.val : ~startswith(name, GO_PREFIX)}
         IN Ret([a.obj EXCEPT !._features_names = Put(@, "ppi", ppi)], ppi)
    ELSE Ret(self, self._features_names["ppi"])

RowStats_num_features(self) ==
    LET r == RowStats_all_features_names(self) IN Ret(r.obj, Cardinality(r.val))

RowStats_num_go_features(self) ==
    LET r == RowStats_go_features_names(self) IN Ret(r.obj, Cardinality(r.val))

RowStats_num_ppi_features(self) ==
    LET r == RowStats_ppi_features_names(self) IN Ret(r.obj, Cardinality(r.val))

\* The body of the for loop of go_values_counts, over the names still to visit
RECURSIVE go_values_loop(_, _)
go_values_loop(self, names) ==
    IF names = <<>> THEN Ret(self, self._values_count["go"])
    ELSE LET go_value == getitem(self.row, Head(names)) IN
         IF go_value \notin {"0", "1"} THEN Throw(self, "AssertionError", <<>>)
         ELSE go_values_loop([self EXCEPT !._values_count["go"][go_value] = @ + 1],
                             Tail(names))

RowStats_go_values_counts(self) ==
    IF "go" \notin DOMAIN self._values_count
    THEN LET zero == [self EXCEPT !._values_count =
                                    Put(@, "go", ("0" :> 0) @@ ("1" :> 0))]
             names == RowStats_go_features_names(zero)
         IN go_values_loop(names.obj, Iter(names.obj.row, names.val))
    ELSE Ret(self, self._values_count["go"])

\* ppi_bucket with each boundary in the upper bucket
ppi_bucket_upper(ppi_value) ==
    IF ppi_value = 0 THEN Some("0")
    ELSE IF B000 < ppi_value /\ ppi_value < B150 THEN Some("001->150")
    ELSE IF B150 <= ppi_value /\ ppi_value < B400 THEN Some("151->400")
    ELSE IF B400 <= ppi_value /\ ppi_value < B700 THEN Some("401->700")
    ELSE IF B700 <= ppi_value /\ ppi_value < B900 THEN Some("701->900")
    ELSE IF B900 <= ppi_value /\ ppi_value <= B1000 THEN Some("901->1000")
    ELSE None

\* ppi_bucket with no upper end of the last bucket
ppi_bucket_open(ppi_value) ==
    IF ppi_value = 0 THEN Some("0")
    ELSE IF B000 < ppi_value /\ ppi_value <= B150 THEN Some("001->150")
    ELSE IF B150 < ppi_value /\ ppi_value <= B400 THEN Some("151->400")
    ELSE IF B400 < ppi_value /\ ppi_value <= B700 THEN Some("401->700")
    ELSE IF B700 < ppi_value /\ ppi_value <= B900 THEN Some("701->900")
    ELSE IF B900 < ppi_value THEN Some("901->1000")
    ELSE None

\* The if/elif chain of ppi_values_counts: the bucket of a value, None if no branch takes it
ppi_bucket(ppi_value) ==
    IF ppi_value = 0 THEN Some("0")
    ELSE IF B000 < ppi_value /\ ppi_value <= B150 THEN Some("001->150")
    ELSE IF B150 < ppi_value /\ ppi_value <= B400 THEN Some("151->400")
    ELSE IF B400 < ppi_value /\ ppi_value <= B700 THEN Some("401->700")
    ELSE IF B700 < ppi_value /\ ppi_value <= B900 THEN Some("701->900")
    ELSE IF B900 < ppi_value /\ ppi_value <= B1000 THEN Some("901->1000")
    ELSE None

\* The body of the for loop of ppi_values_counts, over the names still to visit
RECURSIVE ppi_values_loop(_, _)
ppi_values_loop(self, names) ==
    IF names = <<>> THEN Ret(self, self._values_count["ppi"])
    ELSE LET ppi_feature_name == Head(names)
             bucket == ppi_bucket(float(getitem(self.row, ppi_feature_name)))
         IN IF bucket = None
            THEN Throw(self, "Exception",
                       <<"Invalid PPI value for ", ppi_feature_name, " on instance ",
                         getitem(self.row, ENTREZ), ".">>)
            ELSE ppi_values_loop([self EXCEPT !._values_count["ppi"][bucket[1]] = @ + 1],
                                 Tail(names))

PpiBuckets == <<"0", "001->150", "151->400", "401->700", "701->900", "901->1000">>

RowStats_ppi_values_counts(self) ==
    IF "ppi" \notin DOMAIN self._values_count
    THEN LET zero == [self EXCEPT !._values_count =
                         Put(@, "ppi", [b \in {PpiBuckets[i] : i \in 1..6} |-> 0])]
             names == RowStats_ppi_features_names(zero)
         IN ppi_values_loop(names.obj, Iter(names.obj.row, names.val))
    ELSE Ret(self, self._values_count["ppi"])

\* sum(d.values())
RECURSIVE SumValues(_)
SumValues(d) ==
    IF DOMAIN d = {} THEN 0
    ELSE LET k == CHOOSE x \in DOMAIN d : TRUE
         IN d[k] + SumValues([x \in DOMAIN d \ {k} |-> d[x]])

RowStats_validate(self) ==
    Bind(RowStats_num_features(self), LAMBDA nf :
    Bind(RowStats_num_go_features(nf.obj), LAMBDA ng :
    Bind(RowStats_num_ppi_features(ng.obj), LAMBDA np :
    IF nf.val # ng.val + np.val THEN Throw(np.obj, "AssertionError", <<>>)
    ELSE
    Bind(RowStats_go_values_counts(np.obj), LAMBDA go :
    IF ng.val # SumValues(go.val) THEN Throw(go.obj, "AssertionError", <<>>)
    ELSE
    Bind(RowStats_ppi_values_counts(go.obj), LAMBDA ppi :
    IF np.val # SumValues(ppi.val) THEN Throw(ppi.obj, "AssertionError", <<>>)
    ELSE Ret(ppi.obj, None))))))

PpiLabels == <<"PPI=0", "PPI=(0;150]", "PPI=(150;400]", "PPI=(400;700]",
               "PPI=(700;900]", "PPI=(900;1000]">>

\* The sixteen entries, given the two mappings and the two family counts
row_stats_dict(go, ppi, ng, np) ==
    ("#GO=0" :> Whole(go["0"])) @@ ("#GO=1" :> Whole(go["1"]))
    @@ ("%GO=0" :> RatDiv(Whole(go["0"]), Whole(ng)))
    @@ ("%GO=1" :> RatDiv(Whole(go["1"]), Whole(ng)))
    @@ [k \in {"#" \o PpiLabels[i] : i \in 1..6} |->
          LET i == CHOOSE j \in 1..6 : k = "#" \o PpiLabels[j]
          IN Whole(ppi[PpiBuckets[i]])]
    @@ [k \in {"%" \o PpiLabels[i] : i \in 1..6} |->
          LET i == CHOOSE j \in 1..6 : k = "%" \o PpiLabels[j]
          IN RatDiv(Whole(ppi[PpiBuckets[i]]), Whole(np))]

RowStats_get_stats(self) ==
    Bind(RowStats_go_values_counts(self), LAMBDA go :
    Bind(RowStats_ppi_values_counts(go.obj), LAMBDA ppi :
    Bind(RowStats_num_go_features(ppi.obj), LAMBDA ng :
    Bind(TrueDiv(ng.obj, Whole(go.val["0"]), Whole(ng.val)), LAMBDA pgo :
    Bind(RowStats_num_ppi_features(pgo.obj), LAMBDA np :
    Bind(TrueDiv(np.obj, Whole(ppi.val["0"]), Whole(np.val)), LAMBDA pppi :
    Ret(pppi.obj, row_stats_dict(go.val, ppi.val, ng.val, np.val))))))))

(***************************************************************************)
(* collections.Counter                                                     *)
(***************************************************************************)
Get(d, k) == IF k \in DOMAIN d THEN d[k] ELSE Whole(0)

\* c += other: the counts are added and only the positive ones are kept
CounterIAdd(c, other) ==
    LET keys == DOMAIN c \cup DOMAIN other
        sum == [k \in keys |-> RatAdd(Get(c, k), Get(other, k))]
    IN [k \in {x \in keys : sum[x][1] > 0} |-> sum[k]]

(***************************************************************************)
(* class DatasetStats                                                      *)
(***************************************************************************)
DatasetStats(dataset) ==
    [dataset |-> dataset,
     _num_positive_instances |-> None,
     _num_negative_instances |-> None,
     _num_features |-> None,
     _num_go_features |-> None,
     _num_ppi_features |-> None,
     _rows_stats |-> None,
     _avg_rows_stats |-> None]

\* The outcome for self of a call r on self._rows_stats[i]
At(self, i, r) == [r EXCEPT !.obj = [self EXCEPT !._rows_stats[1][i] = r.obj]]

\* validate_loop without the comparison with the dataset-wide counts
RECURSIVE validate_loop_rows_only(_, _)
validate_loop_rows_only(self, i) ==
    IF i > Len(self._rows_stats[1]) THEN Ret(self, None)
    ELSE Bind(At(self, i, RowStats_validate(self._rows_stats[1][i])), LAMBDA v :
         validate_loop_rows_only(v.obj, i + 1))

\* The body of the for loop of _validate, from the i-th RowStats on
RECURSIVE validate_loop(_, _)
validate_loop(self, i) ==
    IF i > Len(self._rows_stats[1]) THEN Ret(self, None)
    ELSE
    Bind(At(self, i, RowStats_validate(self._rows_stats[1][i])), LAMBDA v :
    Bind(At(v.obj, i, RowStats_num_features(v.obj._rows_stats[1][i])), LAMBDA nf :
    IF self._num_features[1] # nf.val THEN Throw(nf.obj, "AssertionError", <<>>)
    ELSE
    Bind(At(nf.obj, i, RowStats_num_go_features(nf.obj._rows_stats[1][i])), LAMBDA ng :
    IF self._num_go_features[1] # ng.val THEN Throw(ng.obj, "AssertionError", <<>>)
    ELSE
    Bind(At(ng.obj, i, RowStats_num_ppi_features(ng.obj._rows_stats[1][i])), LAMBDA np :
    IF self._num_ppi_features[1] # np.val THEN Throw(np.obj, "AssertionError", <<>>)
    ELSE validate_loop(np.obj, i + 1)))))

\* _validate runs inside _calculate only, after the fields it reads through
\* the properties are set: the properties return the fields
DatasetStats__validate(self) ==
    LET neg == self._num_negative_instances[1]
        pos == self._num_positive_instances[1]
    IN IF pos + neg # neg + pos THEN Throw(self, "AssertionError", <<>>)
       ELSE validate_loop(self, 1)

\* calculate_loop counting as positive the rows of class "1" only
RECURSIVE calculate_loop_class_one(_, _)
calculate_loop_class_one(self, rows) ==
    IF rows = <<>> THEN self
    ELSE LET row == Head(rows)
             counted == IF getitem(row, CLASS) = "1"
                        THEN [self EXCEPT !._num_positive_instances[1] = @ + 1]
                        ELSE [self EXCEPT !._num_negative_instances[1] = @ + 1]
         IN calculate_loop_class_one(
                [counted EXCEPT !._rows_stats[1] = Append(@, RowStats(row))], Tail(rows))

\* The body of the for loop of _calculate, over the rows still to visit
RECURSIVE calculate_loop(_, _)
calculate_loop(self, rows) ==
    IF rows = <<>> THEN self
    ELSE LET row == Head(rows)
             counted == IF getitem(row, CLASS) = "0"
                        THEN [self EXCEPT !._num_negative_instances[1] = @ + 1]
                        ELSE [self EXCEPT !._num_positive_instances[1] = @ + 1]
         IN calculate_loop([counted EXCEPT !._rows_stats[1] = Append(@, RowStats(row))],
                           Tail(rows))

DatasetStats__calculate(self) ==
    LET zero == [self EXCEPT !._num_positive_instances = Some(0),
                             !._num_negative_instances = Some(0),
                             !._rows_stats = Some(<<>>)]
    IN
    Bind(Ret(calculate_loop(zero, zero.dataset), None), LAMBDA looped :
    IF looped.obj._rows_stats[1] = <<>> THEN Throw(looped.obj, "IndexError", <<>>)
    ELSE
    Bind(At(looped.obj, 1, RowStats_num_features(looped.obj._rows_stats[1][1])), LAMBDA nf :
    Bind(At(nf.obj, 1, RowStats_num_go_features(nf.obj._rows_stats[1][1])), LAMBDA ng :
    Bind(At(ng.obj, 1, RowStats_num_ppi_features(ng.obj._rows_stats[1][1])), LAMBDA np :
    DatasetStats__validate([np.obj EXCEPT !._num_features = Some(nf.val),
                                          !._num_go_features = Some(ng.val),
                                          !._num_ppi_features = Some(np.val)])))))

\* The lazy properties: if self.<field> is None: self._calculate(); return self.<field>
lazy(self, field) ==
    IF self[field] = None
    THEN Bind(DatasetStats__calculate(self), LAMBDA c : Ret(c.obj, c.obj[field][1]))
    ELSE Ret(self, self[field][1])

DatasetStats_num_positive_instances(self) == lazy(self, "_num_positive_instances")

DatasetStats_num_negative_instances(self) == lazy(self, "_num_negative_instances")

DatasetStats_num_instances(self) ==
    Bind(DatasetStats_num_positive_instances(self), LAMBDA pos :
    Bind(DatasetStats_num_negative_instances(pos.obj), LAMBDA neg :
    Ret(neg.obj, pos.val + neg.val)))

DatasetStats_num_features(self) == lazy(self, "_num_features")

DatasetStats_num_go_features(self) == lazy(self, "_num_go_features")

DatasetStats_num_ppi_features(self) == lazy(self, "_num_ppi_features")

DatasetStats_rows_stats(self) == lazy(self, "_rows_stats")

\* The first for loop of avg_rows_stats, from the i-th RowStats on
RECURSIVE sum_loop(_, _, _)
sum_loop(self, i, summed_rows_stats) ==
    IF i > Len(self._rows_stats[1]) THEN Ret(self, summed_rows_stats)
    ELSE Bind(At(self, i, RowStats_get_stats(self._rows_stats[1][i])), LAMBDA g :
         sum_loop(g.obj, i + 1, CounterIAdd(summed_rows_stats, g.val)))

\* The second for loop of avg_rows_stats, over the keys still to visit
RECURSIVE avg_loop(_, _, _)
avg_loop(self, summed_rows_stats, keys) ==
    IF keys = {} THEN Ret(self, self._avg_rows_stats[1])
    ELSE LET key == CHOOSE k \in keys : TRUE IN
         Bind(DatasetStats_num_instances(self), LAMBDA ni :
         Bind(TrueDiv(ni.obj, summed_rows_stats[key], Whole(ni.val)), LAMBDA avg :
         avg_loop([avg.obj EXCEPT !._avg_rows_stats[1] = Put(@, key, avg.val)],
                  summed_rows_stats, keys \ {key})))

DatasetStats_avg_rows_stats(self) ==
    IF self._avg_rows_stats = None
    THEN Bind(DatasetStats_rows_stats([self EXCEPT !._avg_rows_stats = Some(<<>>)]),
              LAMBDA rows :
         Bind(sum_loop(rows.obj, 1, <<>>), LAMBDA summed :
         avg_loop(summed.obj, summed.val, DOMAIN summed.val)))
    ELSE Ret(self, self._avg_rows_stats[1])

AvgKeys == <<"%GO=0", "%GO=1", "%PPI=0", "%PPI=(0;150]", "%PPI=(150;400]",
             "%PPI=(400;700]", "%PPI=(700;900]", "%PPI=(900;1000]">>

\* avg_entries reading a missing key as 0.0
RECURSIVE avg_entries_default(_, _, _)
avg_entries_default(self, i, items) ==
    IF i > Len(AvgKeys) THEN Ret(self, items)
    ELSE Bind(DatasetStats_avg_rows_stats(self), LAMBDA avg :
         avg_entries_default(avg.obj, i + 1,
             Append(items, <<"avg" \o AvgKeys[i], Get(avg.val, AvgKeys[i])>>)))

\* The eight self.avg_rows_stats[key] entries of get_stats, from the i-th on;
\* items is the dict literal built so far, as its (key, value) pairs in order
RECURSIVE avg_entries(_, _, _)
avg_entries(self, i, items) ==
    IF i > Len(AvgKeys) THEN Ret(self, items)
    ELSE Bind(DatasetStats_avg_rows_stats(self), LAMBDA avg :
         IF AvgKeys[i] \notin DOMAIN avg.val
         THEN Throw(avg.obj, "KeyError", <<AvgKeys[i]>>)
         ELSE avg_entries(avg.obj, i + 1,
                  Append(items, <<"avg" \o AvgKeys[i], avg.val[AvgKeys[i]]>>)))

DatasetStats_get_stats(self) ==
    Bind(DatasetStats_num_instances(self), LAMBDA inst :
    Bind(DatasetStats_num_positive_instances(inst.obj), LAMBDA pos :
    Bind(DatasetStats_num_negative_instances(pos.obj), LAMBDA neg :
    Bind(DatasetStats_num_go_features(neg.obj), LAMBDA go :
    Bind(DatasetStats_num_features(go.obj), LAMBDA nf1 :
    Bind(TrueDiv(nf1.obj, Whole(go.val), Whole(nf1.val)), LAMBDA pgo :
    Bind(DatasetStats_num_ppi_features(pgo.obj), LAMBDA ppi :
    Bind(DatasetStats_num_features(ppi.obj), LAMBDA nf2 :
    Bind(TrueDiv(nf2.obj, Whole(ppi.val), Whole(nf2.val)), LAMBDA pppi :
    avg_entries(pppi.obj, 1,
                <<<<"#Inst", Whole(inst.val)>>, <<"#Pos", Whole(pos.val)>>,
                  <<"#Neg", Whole(neg.val)>>, <<"%GO", pgo.val>>,
                  <<"%PPI", pppi.val>>>>))))))))))

(***************************************************************************)
(* main                                                                    *)
(***************************************************************************)
\* setitem putting a new key first
setitem_first(d, key, value) ==
    IF \E i \in 1..Len(d) : d[i][1] = key
    THEN [i \in 1..Len(d) |-> IF d[i][1] = key THEN <<key, value>> ELSE d[i]]
    ELSE <<<<key, value>>>> \o d

\* d[key] = value on a dict given as its (key, value) pairs in insertion
\* order: a new key goes last
setitem(d, key, value) ==
    IF \E i \in 1..Len(d) : d[i][1] = key
    THEN [i \in 1..Len(d) |-> IF d[i][1] = key THEN <<key, value>> ELSE d[i]]
    ELSE Append(d, <<key, value>>)

\* list(d.keys())
Keys(d) == [i \in 1..Len(d) |-> d[i][1]]

\* s[start:stop] for start >= 0 > stop
slice(s, start, stop) == SubSeq(s, start + 1, Len(s) + stop)

NAME_START == 10
NAME_STOP == 17

\* main_stats going on with an empty dict when get_stats raises
main_stats_swallow(arg) ==
    LET r == DatasetStats_get_stats(DatasetStats(arg.rows)) IN
    Ret(r.obj, setitem(IF r.exc # NoExc THEN <<>> ELSE r.val, "Dataset",
                       slice(arg.path, NAME_START, -NAME_STOP)))

\* Lines 23-26 for one entry of argv: arff.load, get_stats of a new
\* DatasetStats, and the Dataset entry
main_stats(arg) ==
    Bind(DatasetStats_get_stats(DatasetStats(arg.rows)), LAMBDA r :
    Ret(r.obj, setitem(r.val, "Dataset", slice(arg.path, NAME_START, -NAME_STOP))))

\* csv.DictWriter.writeheader, as the line it writes
writeheader(fieldnames) == [call |-> "writeheader", cells |-> fieldnames]

\* csv.DictWriter.writerow: ValueError for a key that is no field name, the
\* empty string for a field name that is no key
writerow(fieldnames, rowdict) ==
    LET names == {fieldnames[i] : i \in 1..Len(fieldnames)}
        keys == {rowdict[j][1] : j \in 1..Len(rowdict)}
        cell(name) == IF name \in keys
                      THEN rowdict[CHOOSE j \in 1..Len(rowdict) : rowdict[j][1] = name][2]
                      ELSE <<>>
    IN IF keys \ names # {} THEN Throw(None, "ValueError", <<>>)
       ELSE Ret(None, [call |-> "writerow",
                       cells |-> [i \in 1..Len(fieldnames) |-> cell(fieldnames[i])]])

(***************************************************************************)
(* SpecRow: one RowStats object, its public members called in any order.   *)
(***************************************************************************)
GoValues == {"0", "1", "2"}

PpiTexts == {"-0.01", "0", "0.0", "0.0001", "0.150", "0.1501", "0.400", "0.4001",
             "0.700", "0.7001", "0.900", "0.9001", "1.000", "1.0001"}

SeqsUpTo(S, n) == UNION {[1..k -> S] : k \in 0..n}

\* Rows of two PPI columns added to the enumerated ones: the row of the
\* scenario of the specification and rows with a value out of range in the
\* first or the second column
ExtraRows ==
    {MakeRow("e1", gos, ppis, "1") :
        gos \in {<<"0", "1">>},
        ppis \in {<<"0.0", "0.5">>, <<"1.0001", "0.150">>, <<"0.150", "1.0001">>,
                  <<"-0.01", "1.0001">>, <<"0.150", "0.150">>}}

RowInputs ==
    {MakeRow("e1", gos, ppis, "1") :
        gos \in SeqsUpTo(GoValues, MaxGoRow), ppis \in SeqsUpTo(PpiTexts, MaxPpiRow)}
    \cup ExtraRows

others == <<stats, first, argv, pc, done, print_header, w, dataset_stats, stdout, exit>>

mainvars == <<argv, pc, done, print_header, w, dataset_stats, stdout, exit>>

InitRow ==
    /\ row_stats \in {RowStats(row) : row \in RowInputs}
    /\ result = [op |-> "new", exc |-> NoExc, val |-> None]
    /\ stats = None /\ first = None /\ argv = None /\ pc = None /\ done = None
    /\ print_header = None /\ w = None /\ dataset_stats = None /\ stdout = None
    /\ exit = None

\* The state after a call r of member op on row_stats
RowCall(op, r) ==
    /\ row_stats' = r.obj
    /\ result' = [op |-> op, exc |-> r.exc, val |-> r.val]
    /\ UNCHANGED others

AllFeaturesNames == RowCall("all_features_names", RowStats_all_features_names(row_stats))

GoFeaturesNames == RowCall("go_features_names", RowStats_go_features_names(row_stats))

PpiFeaturesNames == RowCall("ppi_features_names", RowStats_ppi_features_names(row_stats))

NumFeatures == RowCall("num_features", RowStats_num_features(row_stats))

NumGoFeatures == RowCall("num_go_features", RowStats_num_go_features(row_stats))

NumPpiFeatures == RowCall("num_ppi_features", RowStats_num_ppi_features(row_stats))

GoValuesCounts == RowCall("go_values_counts", RowStats_go_values_counts(row_stats))

PpiValuesCounts == RowCall("ppi_values_counts", RowStats_ppi_values_counts(row_stats))

Validate == RowCall("validate", RowStats_validate(row_stats))

RowGetStats == RowCall("get_stats", RowStats_get_stats(row_stats))

NextRow ==
    \/ AllFeaturesNames \/ GoFeaturesNames \/ PpiFeaturesNames
    \/ NumFeatures \/ NumGoFeatures \/ NumPpiFeatures
    \/ GoValuesCounts \/ PpiValuesCounts \/ Validate \/ RowGetStats

SpecRow == InitRow /\ [][NextRow]_vars

(***************************************************************************)
(* Spec: one DatasetStats object, its public members called in any order.  *)
(***************************************************************************)
Classes == {"0", "1"}

PpiLow == <<"0.0", "0.150", "0.400">>

PpiHigh == <<"0.700", "0.900", "1.000">>

\* The GO and PPI columns of a row. Two rows of the first two parts cover both
\* GO values and all six PPI buckets; the others differ from them by one
\* defect: a fourth PPI column, an invalid GO value, a PPI value out of range,
\* no GO column, no PPI column.
FeatureParts ==
    {<<<<"0">>, PpiLow>>, <<<<"1">>, PpiHigh>>,
     <<<<"1">>, PpiHigh \o <<"0.5">>>>,
     <<<<"2">>, PpiHigh>>,
     <<<<"1">>, PpiHigh \o <<"1.0001">>>>,
     <<<<>>, PpiLow>>, <<<<>>, PpiHigh>>,
     <<<<"1">>, <<>>>>}

Entrez(i) == "e" \o ToString(i)

Rows(classes, parts) ==
    [i \in 1..Len(classes) |-> MakeRow(Entrez(i), parts[i][1], parts[i][2], classes[i])]

\* The scenario of the specification: three rows of GO:1=0, GO:2=1, ppi1=0.0,
\* ppi2=0.5 with classes 0, 1, 1; and its schema-mismatch scenario, a second
\* row of three GO features after a first of two
Scenario == Rows(<<"0", "1", "1">>, [i \in 1..3 |-> <<<<"0", "1">>, <<"0.0", "0.5">>>>])

MismatchScenario ==
    Rows(<<"0", "1">>, <<<<<<"0", "1">>, PpiLow>>, <<<<"0", "1", "1">>, PpiHigh>>>>)

\* A row of a class other than "0" and "1"
ThirdClass == Rows(<<"2", "0">>, <<<<<<"0">>, PpiLow>>, <<<<"1">>, PpiHigh>>>>)

Datasets ==
    UNION {{Rows(classes, parts) :
               classes \in [1..n -> Classes], parts \in [1..n -> FeatureParts]}
           : n \in 0..MaxRows}
    \cup {Scenario, MismatchScenario, ThirdClass}

Init ==
    /\ stats \in {DatasetStats(dataset) : dataset \in Datasets}
    /\ result = [op |-> "new", exc |-> NoExc, val |-> None]
    /\ first = None
    /\ row_stats = None /\ argv = None /\ pc = None /\ done = None
    /\ print_header = None /\ w = None /\ dataset_stats = None /\ stdout = None
    /\ exit = None

\* The state after a call r of member op on stats
Call(op, r) ==
    /\ stats' = r.obj
    /\ result' = [op |-> op, exc |-> r.exc, val |-> r.val]
    /\ UNCHANGED <<row_stats, mainvars>>

NumInstances ==
    /\ Call("num_instances", DatasetStats_num_instances(stats))
    /\ UNCHANGED first

AvgRowsStats ==
    /\ Call("avg_rows_stats", DatasetStats_avg_rows_stats(stats))
    /\ UNCHANGED first

GetStats ==
    /\ Call("get_stats", DatasetStats_get_stats(stats))
    /\ first' = IF first = None THEN Some([exc |-> result'.exc, val |-> result'.val])
                ELSE first

Next ==
    \/ NumInstances \/ AvgRowsStats \/ GetStats

Spec == Init /\ [][Next]_vars

(***************************************************************************)
(* SpecMain: a run of main over the files of argv. A file is its path and  *)
(* the rows arff.load yields for it.                                       *)
(***************************************************************************)
Chars(prefix, name, suffix) == prefix \o name \o suffix

PathPrefix == <<".", "/", "d", "a", "t", "a", "s", "e", "t", "/">>

PathSuffix == <<"-", "g", "o", "+", "p", "p", "i", "-", "f", "u", "l", "l",
                ".", "a", "r", "f", "f">>

Paths == {Chars(PathPrefix, <<"C", "E">>, PathSuffix),
          Chars(PathPrefix, <<"D", "M">>, PathSuffix)}

Good == Rows(<<"0", "1">>, <<<<<<"0">>, PpiLow>>, <<<<"1">>, PpiHigh>>>>)

GoodThree ==
    Rows(<<"1", "1", "0">>,
         <<<<<<"0">>, PpiLow>>, <<<<"1">>, PpiHigh>>, <<<<"1">>, PpiHigh>>>>)

FourthColumn == Rows(<<"0", "1">>, <<<<<<"0">>, PpiLow>>, <<<<"1">>, PpiHigh \o <<"0.5">>>>>>)

Files ==
    {[path |-> path, rows |-> rows] :
        path \in Paths, rows \in {Good, GoodThree, FourthColumn, Scenario, <<>>}}
    \cup {[path |-> <<"a", ".", "a", "r", "f", "f">>, rows |-> Good]}

InitMain ==
    /\ argv \in SeqsUpTo(Files, MaxFiles)
    /\ pc = "load"
    /\ done = 0
    /\ print_header = TRUE
    /\ w = <<>>
    /\ dataset_stats = None
    /\ stdout = <<>>
    /\ exit = NoExc
    /\ row_stats = None /\ stats = None /\ result = None /\ first = None

harness == <<row_stats, stats, result, first>>

\* Lines 23-26: an exception of get_stats is not caught and ends the run
LoadAndCompute ==
    /\ pc = "load" /\ done < Len(argv)
    /\ LET r == main_stats(argv[done + 1]) IN
       IF r.exc # NoExc
       THEN /\ exit' = r.exc
            /\ pc' = "exit"
            /\ UNCHANGED dataset_stats
       ELSE /\ dataset_stats' = Some(r.val)
            /\ pc' = "header"
            /\ UNCHANGED exit
    /\ UNCHANGED <<argv, done, print_header, w, stdout, harness>>

\* Lines 27-30
WriteHeader ==
    /\ pc = "header" /\ print_header
    /\ w' = Keys(dataset_stats[1])
    /\ stdout' = Append(stdout, writeheader(w'))
    /\ print_header' = FALSE
    /\ pc' = "row"
    /\ UNCHANGED <<argv, done, dataset_stats, exit, harness>>

SkipHeader ==
    /\ pc = "header" /\ ~print_header
    /\ pc' = "row"
    /\ UNCHANGED <<argv, done, print_header, w, dataset_stats, stdout, exit, harness>>

\* Line 31
WriteRow ==
    /\ pc = "row"
    /\ LET r == writerow(w, dataset_stats[1]) IN
       IF r.exc # NoExc
       THEN /\ exit' = r.exc
            /\ pc' = "exit"
            /\ UNCHANGED <<stdout, done>>
       ELSE /\ stdout' = Append(stdout, r.val)
            /\ done' = done + 1
            /\ pc' = "load"
            /\ UNCHANGED exit
    /\ UNCHANGED <<argv, print_header, w, dataset_stats, harness>>

\* The for loop is exhausted
Return ==
    /\ pc = "load" /\ done = Len(argv)
    /\ pc' = "exit"
    /\ UNCHANGED <<argv, done, print_header, w, dataset_stats, stdout, exit, harness>>

NextMain == LoadAndCompute \/ WriteHeader \/ SkipHeader \/ WriteRow \/ Return

SpecMain == InitMain /\ [][NextMain]_vars

(***************************************************************************)
(* Claims about RowStats, checked under SpecRow                            *)
(***************************************************************************)
Features(row) == {row._fields[i] : i \in 1..Len(row._fields)} \ {ENTREZ, CLASS}

GoFeatures(row) == {name \in Features(row) : startswith(name, GO_PREFIX)}

PpiFeatures(row) == Features(row) \ GoFeatures(row)

PpiValue(row, name) == float(getitem(row, name))

InUnitInterval(v) == 0 <= v /\ v <= 10000

\* The six intervals of the specification, by bucket key
InInterval(bucket, v) ==
    CASE bucket = "0" -> v = 0
      [] bucket = "001->150" -> 0 < v /\ v <= 1500
      [] bucket = "151->400" -> 1500 < v /\ v <= 4000
      [] bucket = "401->700" -> 4000 < v /\ v <= 7000
      [] bucket = "701->900" -> 7000 < v /\ v <= 9000
      [] bucket = "901->1000" -> 9000 < v /\ v <= 10000

Holding(row, bucket) == {name \in PpiFeatures(row) : InInterval(bucket, PpiValue(row, name))}

BucketKeys == {PpiBuckets[i] : i \in 1..6}

RowValid(row) ==
    /\ \A name \in GoFeatures(row) : getitem(row, name) \in {"0", "1"}
    /\ \A name \in PpiFeatures(row) : InUnitInterval(PpiValue(row, name))

\* C2: every PPI value in [0, 1] lies in exactly one of the six intervals, a
\* boundary in the lower one, and ppi_values_counts of a row whose PPI values
\* all lie in [0, 1] counts in each bucket exactly the features whose value
\* lies in its interval; no count ever exceeds the features of its interval.
C2_Buckets ==
    LET row == row_stats.row IN
    /\ \A name \in PpiFeatures(row) :
          InUnitInterval(PpiValue(row, name)) =>
             Cardinality({b \in BucketKeys : InInterval(b, PpiValue(row, name))}) = 1
    /\ "ppi" \in DOMAIN row_stats._values_count =>
          \A b \in BucketKeys :
             /\ row_stats._values_count["ppi"][b] <= Cardinality(Holding(row, b))
             /\ (\A name \in PpiFeatures(row) : InUnitInterval(PpiValue(row, name)))
                   => row_stats._values_count["ppi"][b] = Cardinality(Holding(row, b))
    /\ (result.op = "ppi_values_counts" /\ result.exc = NoExc)
          => result.val = row_stats._values_count["ppi"]

C2_Witness ==
    /\ result.op = "ppi_values_counts" /\ result.exc = NoExc
    /\ \E name \in PpiFeatures(row_stats.row) : getitem(row_stats.row, name) = "0.150"
    /\ result.val["001->150"] = 2 /\ result.val["151->400"] = 0

\* C4: validate raises exactly for a row with a GO value other than "0" and
\* "1" or a PPI value outside [0, 1], and the exception ppi_values_counts
\* raises names a PPI feature holding such a value and the row's entrez.
C4_ValidateFatalIff ==
    LET row == row_stats.row IN
    /\ result.op = "validate" => (result.exc # NoExc <=> ~RowValid(row))
    /\ result.exc.type = "Exception" =>
          \E name \in PpiFeatures(row) :
             /\ ~InUnitInterval(PpiValue(row, name))
             /\ result.exc.msg = <<"Invalid PPI value for ", name, " on instance ",
                                   getitem(row, ENTREZ), ".">>

C4_Witness ==
    /\ result.op = "validate" /\ result.exc.type = "Exception"
    /\ \E name \in PpiFeatures(row_stats.row) : getitem(row_stats.row, name) = "1.0001"
    /\ \A name \in PpiFeatures(row_stats.row) : getitem(row_stats.row, name) # "-0.01"

\* C6 (as claimed): whenever go_values_counts or ppi_values_counts returns a
\* mapping, its values sum to the number of features of its family.
C6_SumsCoverFamily ==
    /\ (result.op = "go_values_counts" /\ result.exc = NoExc)
          => SumValues(result.val) = Cardinality(GoFeatures(row_stats.row))
    /\ (result.op = "ppi_values_counts" /\ result.exc = NoExc)
          => SumValues(result.val) = Cardinality(PpiFeatures(row_stats.row))

(***************************************************************************)
(* Claims about DatasetStats, checked under Spec                           *)
(***************************************************************************)
Counts(row) ==
    <<Cardinality(Features(row)), Cardinality(GoFeatures(row)),
      Cardinality(PpiFeatures(row))>>

Uniform(dataset) == \A i \in 1..Len(dataset) : Counts(dataset[i]) = Counts(dataset[1])

PassesValidation(dataset) ==
    /\ Len(dataset) >= 1
    /\ \A i \in 1..Len(dataset) : RowValid(dataset[i])
    /\ Uniform(dataset)

BothFamilies(dataset) ==
    \A i \in 1..Len(dataset) : GoFeatures(dataset[i]) # {} /\ PpiFeatures(dataset[i]) # {}

\* The row's own percentage for the i-th avg% field
RowPercent(row, i) ==
    IF i <= 2
    THEN Rat(Cardinality({name \in GoFeatures(row) : getitem(row, name) = DigitChar[i]}),
             Cardinality(GoFeatures(row)))
    ELSE Rat(Cardinality(Holding(row, PpiBuckets[i - 2])), Cardinality(PpiFeatures(row)))

RECURSIVE SumPercent(_, _, _)
SumPercent(dataset, i, n) ==
    IF n = 0 THEN Whole(0)
    ELSE RatAdd(SumPercent(dataset, i, n - 1), RowPercent(dataset[n], i))

Mean(dataset, i) == RatDiv(SumPercent(dataset, i, Len(dataset)), Whole(Len(dataset)))

\* report[key] of a dict given as its (key, value) pairs
Field(report, key) == report[CHOOSE i \in 1..Len(report) : report[i][1] = key][2]

\* C1 (as claimed): for a dataset that passes validation, get_stats returns a
\* report whose eight avg% fields are the means over the rows of the row's own
\* percentage, 0.0 for a bucket that holds no value in any row.
C1_AvgIsMean ==
    (result.op = "get_stats" /\ PassesValidation(stats.dataset)
                             /\ BothFamilies(stats.dataset))
    => /\ result.exc = NoExc
       /\ \A i \in 1..8 :
             Field(result.val, "avg" \o AvgKeys[i]) = Mean(stats.dataset, i)

\* C3: a call that computes the statistics of a dataset in which some row's
\* total, GO or PPI feature count differs from the first row's raises.
C3_MismatchIsFatal ==
    [][(stats._rows_stats = None /\ ~Uniform(stats.dataset)) => result'.exc # NoExc]_vars

C3_Witness ==
    /\ stats.dataset = MismatchScenario
    /\ result.op = "get_stats" /\ result.exc.type = "AssertionError"
    /\ stats._avg_rows_stats = None

\* C5 (as claimed): a later get_stats call on the same object has the outcome
\* of the first: the same report, or a fatal error if the first was one.
C5_SecondCallSame ==
    (result.op = "get_stats" /\ first # None)
    => IF first[1].exc = NoExc
       THEN result.exc = NoExc /\ result.val = first[1].val
       ELSE result.exc # NoExc

\* C8: once counted, the negative instances are the rows of class "0", the
\* positive ones all other rows, every row has one RowStats, and num_instances
\* is their sum, the number of rows.
C8_InstanceCounts ==
    LET dataset == stats.dataset
        zeros == {i \in 1..Len(dataset) : getitem(dataset[i], CLASS) = "0"}
    IN /\ stats._num_negative_instances # None =>
             /\ stats._num_negative_instances[1] = Cardinality(zeros)
             /\ stats._num_positive_instances[1] = Len(dataset) - Cardinality(zeros)
             /\ Len(stats._rows_stats[1]) = Len(dataset)
             /\ \A i \in 1..Len(dataset) : stats._rows_stats[1][i].row = dataset[i]
       /\ (result.op = "num_instances" /\ result.exc = NoExc) =>
             /\ result.val = Len(dataset)
             /\ result.val = stats._num_positive_instances[1]
                             + stats._num_negative_instances[1]
       /\ (result.op = "get_stats" /\ result.exc = NoExc) =>
             /\ Field(result.val, "#Inst") = Whole(Len(dataset))
             /\ Field(result.val, "#Neg") = Whole(Cardinality(zeros))
             /\ Field(result.val, "#Pos") = Whole(Len(dataset) - Cardinality(zeros))

C8_Witness ==
    /\ stats.dataset = ThirdClass
    /\ result.op = "get_stats" /\ result.exc = NoExc
    /\ Field(result.val, "#Pos") = Whole(1) /\ Field(result.val, "#Neg") = Whole(1)

\* C10: get_stats returns a report only for a dataset of at least one row
\* whose rows all have a GO and a PPI feature; on an empty dataset it raises
\* IndexError, and on rows that pass validation but lack a family it raises
\* ZeroDivisionError (KeyError once the failed call left the averages empty).
C10_ReportNeedsBothFamilies ==
    result.op = "get_stats" =>
       /\ result.exc = NoExc => Len(stats.dataset) >= 1 /\ BothFamilies(stats.dataset)
       /\ Len(stats.dataset) = 0 => result.exc.type = "IndexError"
       /\ (PassesValidation(stats.dataset) /\ ~BothFamilies(stats.dataset))
             => result.exc.type \in {"ZeroDivisionError", "KeyError"}

C10_Witness ==
    /\ result.op = "get_stats" /\ result.exc.type = "ZeroDivisionError"
    /\ PassesValidation(stats.dataset) /\ Len(stats.dataset) = 2
    /\ \A i \in 1..2 : GoFeatures(stats.dataset[i]) = {}
                       /\ PpiFeatures(stats.dataset[i]) # {}

(***************************************************************************)
(* Claims about main, checked under SpecMain                               *)
(***************************************************************************)
StatsFields ==
    <<"#Inst", "#Pos", "#Neg", "%GO", "%PPI", "avg%GO=0", "avg%GO=1", "avg%PPI=0",
      "avg%PPI=(0;150]", "avg%PPI=(150;400]", "avg%PPI=(400;700]",
      "avg%PPI=(700;900]", "avg%PPI=(900;1000]">>

NameOf(arg) == SubSeq(arg.path, 11, Len(arg.path) - 17)

\* The k-th line of stdout is a data row of fourteen cells for the file arg
\* whose Dataset cell is at position at
RowFor(line, arg, at) ==
    /\ line.call = "writerow"
    /\ Len(line.cells) = 14
    /\ line.cells[at] = NameOf(arg)
    /\ line.cells[IF at = 1 THEN 2 ELSE 1] = Whole(Len(arg.rows))

\* C7 (as claimed): the fourteen fields with Dataset first, in the header and
\* in the report of each dataset.
C7_DatasetFirst ==
    /\ dataset_stats # None => Keys(dataset_stats[1]) = <<"Dataset">> \o StatsFields
    /\ stdout # <<>> => stdout[1].cells = <<"Dataset">> \o StatsFields

\* C7 (amended): the report of each dataset has exactly the fourteen fields,
\* the thirteen statistics in the order listed and Dataset last; the header
\* lists them in that order and every data row follows it.
C7_DatasetLast ==
    /\ dataset_stats # None => Keys(dataset_stats[1]) = StatsFields \o <<"Dataset">>
    /\ stdout # <<>> =>
          /\ stdout[1] = [call |-> "writeheader", cells |-> StatsFields \o <<"Dataset">>]
          /\ \A k \in 2..Len(stdout) : RowFor(stdout[k], argv[k - 1], 14)

C7_Witness ==
    /\ Len(stdout) = 3 /\ pc = "exit" /\ exit = NoExc
    /\ NameOf(argv[1]) = <<"C", "E">> /\ NameOf(argv[2]) = <<>>

\* C9: stdout is empty or the header followed by one complete row for each of
\* the files processed to completion, in argument order; it only grows, by one
\* line at a time; an uncaught exception ends the run before any line for the
\* file being processed, and a run that has ended takes no further step.
C9_State ==
    /\ Len(stdout) \in {0, done + 1}
    /\ Len(stdout) = 0 => done = 0 /\ print_header
    /\ stdout # <<>> =>
          /\ stdout[1].call = "writeheader" /\ Len(stdout[1].cells) = 14
          /\ ~print_header
          /\ \A k \in 2..Len(stdout) : RowFor(stdout[k], argv[k - 1], 14)
    /\ exit # NoExc =>
          /\ pc = "exit" /\ done < Len(argv)
          /\ DatasetStats_get_stats(DatasetStats(argv[done + 1].rows)).exc = exit
    /\ (pc = "exit" /\ exit = NoExc) => done = Len(argv)

C9_Step ==
    /\ pc # "exit"
    /\ stdout' = stdout \/ (Len(stdout') = Len(stdout) + 1
                            /\ SubSeq(stdout', 1, Len(stdout)) = stdout)
    /\ done' = done \/ (done' = done + 1 /\ Len(stdout') = Len(stdout) + 1)

C9_OutputInOrder == []C9_State /\ [][C9_Step]_vars

C9_Witness ==
    /\ exit.type = "KeyError" /\ done = 1 /\ Len(argv) = 3 /\ Len(stdout) = 2

====
